---------------------------- MODULE Spec2Model ----------------------------
(***************************************************************************)
(* Model of spayd-rs (src/src/spayd.rs): the Spayd record, its typed       *)
(* builder, Spayd::validate, Spayd::build_string and the two public entry  *)
(* points spayd_string / spayd_string_unchecked.                           *)
(*                                                                         *)
(* A Rust String is modelled as a sequence of characters.  A character is  *)
(* a one-character TLA+ string, except the two non-ASCII characters the    *)
(* model carries, which are written by their code point:                   *)
(*   "U+0663"  ARABIC-INDIC DIGIT THREE, general category Nd, 2 UTF-8 bytes*)
(*   "U+00E9"  LATIN SMALL LETTER E WITH ACUTE, category Ll, 2 UTF-8 bytes *)
(* They are there because the code measures String::len() (bytes) and uses *)
(* the regex crate's \d, which is Unicode-aware (\p{Nd}) for &str regexes. *)
(***************************************************************************)
EXTENDS Integers, Sequences, FiniteSets, TLC

VARIABLES builder, spayd, result, in_order

vars == <<builder, spayd, result, in_order>>

----------------------------------------------------------------------------
(* Characters and character classes used by the regular expressions.       *)

Digit09 == {"0", "1", "2", "3", "4", "5", "6", "7", "8", "9"}

UpperAZ == {"A", "B", "C", "D", "E", "F", "G", "H", "I", "J", "K", "L", "M",
            "N", "O", "P", "Q", "R", "S", "T", "U", "V", "W", "X", "Y", "Z"}

LowerAZ == {"a", "b", "c", "d", "e", "f", "g", "h", "i", "j", "k", "l", "m",
            "n", "o", "p", "q", "r", "s", "t", "u", "v", "w", "x", "y", "z"}

\* Characters whose UTF-8 encoding takes two bytes.
TwoByteChars == {"U+0663", "U+00E9"}

\* \d of the regex crate on a &str haystack: any Unicode decimal digit.
PerlDigit == Digit09 \cup {"U+0663"}

\* [0-9A-Z $%+\-./:]
AllAllowed == Digit09 \cup UpperAZ \cup {" ", "$", "%", "+", "-", ".", "/", ":"}

\* [a-z0-9_+] and [a-z0-9]
EmailLocal == LowerAZ \cup Digit09 \cup {"_", "+"}
EmailDomain == LowerAZ \cup Digit09

\* String::len(): the length in bytes of the UTF-8 encoding.
len(s) == Len(s) + Cardinality({i \in DOMAIN s : s[i] \in TwoByteChars})

\* Every character of s[i..j] is in class C (true of an empty range).
AllIn(s, i, j, C) == \A k \in i..j : s[k] \in C

----------------------------------------------------------------------------
(* The regular expressions of validate, each as Regex::is_match on s.      *)

\* ^[A-Z]{2}\d{2}[0-9A-Z]{1,30}$
re_iban(s) ==
    /\ Len(s) >= 5
    /\ Len(s) <= 34
    /\ AllIn(s, 1, 2, UpperAZ)
    /\ AllIn(s, 3, 4, PerlDigit)
    /\ AllIn(s, 5, Len(s), Digit09 \cup UpperAZ)

\* ^\d+(\.\d{1,2})?$
re_amount(s) ==
    \/ Len(s) >= 1 /\ AllIn(s, 1, Len(s), PerlDigit)
    \/ \E k \in 1..2 :
          /\ Len(s) - k - 1 >= 1
          /\ s[Len(s) - k] = "."
          /\ AllIn(s, 1, Len(s) - k - 1, PerlDigit)
          /\ AllIn(s, Len(s) - k + 1, Len(s), PerlDigit)

\* ^[0-9]+$
re_digits(s) == Len(s) >= 1 /\ AllIn(s, 1, Len(s), Digit09)

\* The pattern with a-z added to the class.
re_all_allowed_lower(s) ==
    Len(s) >= 1 /\ AllIn(s, 1, Len(s), AllAllowed \cup LowerAZ)

\* ^[0-9A-Z $%+\-./:]+$
re_all_allowed(s) == Len(s) >= 1 /\ AllIn(s, 1, Len(s), AllAllowed)

\* The pattern with the month alternative 1[0-2] widened to 1[0-9].
re_date_any_month(s) ==
    /\ Len(s) = 8
    /\ s[1] \in {"1", "2"}
    /\ AllIn(s, 2, 4, PerlDigit)
    /\ \/ s[5] = "0" /\ s[6] \in Digit09 \ {"0"}
       \/ s[5] = "1" /\ s[6] \in Digit09
    /\ \/ s[7] = "0" /\ s[8] \in Digit09 \ {"0"}
       \/ s[7] \in {"1", "2"} /\ s[8] \in PerlDigit
       \/ s[7] = "3" /\ s[8] \in {"0", "1"}

\* ^([12]\d{3}(0[1-9]|1[0-2])(0[1-9]|[12]\d|3[01]))$
re_date(s) ==
    /\ Len(s) = 8
    /\ s[1] \in {"1", "2"}
    /\ AllIn(s, 2, 4, PerlDigit)
    /\ \/ s[5] = "0" /\ s[6] \in Digit09 \ {"0"}
       \/ s[5] = "1" /\ s[6] \in {"0", "1", "2"}
    /\ \/ s[7] = "0" /\ s[8] \in Digit09 \ {"0"}
       \/ s[7] \in {"1", "2"} /\ s[8] \in PerlDigit
       \/ s[7] = "3" /\ s[8] \in {"0", "1"}

\* ^\+?\d+$
re_phone(s) ==
    \/ Len(s) >= 1 /\ AllIn(s, 1, Len(s), PerlDigit)
    \/ Len(s) >= 2 /\ s[1] = "+" /\ AllIn(s, 2, Len(s), PerlDigit)

\* [a-z0-9]+([\-\.]{1}[a-z0-9]+)*  matched exactly by s[i..j]
EmailLabels(s, i, j) ==
    /\ i <= j
    /\ AllIn(s, i, j, EmailDomain \cup {"-", "."})
    /\ s[i] \in EmailDomain
    /\ s[j] \in EmailDomain
    /\ \A k \in i..(j - 1) : ~(s[k] \in {"-", "."} /\ s[k + 1] \in {"-", "."})

\* ^([a-z0-9_+]([a-z0-9_+.]*[a-z0-9_+])?)@([a-z0-9]+([\-\.]{1}[a-z0-9]+)*\.[a-z]{2,6})
\* The pattern has no closing $: it matches when a prefix s[1..e] of s does.
\* at is the position of the @, t the length of the final [a-z]{2,6}.
re_email(s) ==
    \E at \in 2..Len(s) :
        /\ s[at] = "@"
        /\ AllIn(s, 1, at - 1, EmailLocal \cup {"."})
        /\ s[1] \in EmailLocal
        /\ s[at - 1] \in EmailLocal
        /\ \E e \in (at + 1)..Len(s) :
             \E t \in 2..6 :
                /\ e - t - 1 >= at + 1
                /\ AllIn(s, e - t + 1, e, LowerAZ)
                /\ s[e - t] = "."
                /\ EmailLabels(s, at + 1, e - t - 1)

----------------------------------------------------------------------------
(* The data model: Option, Result, PaymentType, NotifyType, SpaydError.    *)

None == << >>
Some(v) == <<v>>

\* Result<_, SpaydError>: Ok(val) or Err(variant(reason)).
Ok(v) == [ok |-> TRUE, val |-> v, variant |-> "", reason |-> ""]
Err(variant, reason) ==
    [ok |-> FALSE, val |-> << >>, variant |-> variant, reason |-> reason]

\* Ok(()) of validate.
OkUnit == Ok(<< >>)

\* enum PaymentType { Instant, Other(String) }
Instant == [tag |-> "Instant", s |-> << >>]
Other(s) == [tag |-> "Other", s |-> s]

\* enum NotifyType { Phone, Email }
Phone == "Phone"
Email == "Email"

\* The fields of struct Spayd, in declaration order.
Fields == <<"account", "amount", "currency", "reference", "recipient", "date",
            "payment_type", "message", "notify", "notify_address">>

\* The alphabetic codes the iso_4217 crate's CurrencyCode::try_from accepts;
\* the model carries an excerpt of the table.
CurrencyCode == {<<"C", "Z", "K">>, <<"E", "U", "R">>, <<"U", "S", "D">>}

----------------------------------------------------------------------------
(* Spayd::validate, one operator per field block of the function.          *)

check_account(self) ==
    IF ~re_iban(self.account)
    THEN Err("InvalidAccountNumber", "Value is not a valid IBAN")
    ELSE OkUnit

check_amount(self) ==
    IF len(self.amount) > 10
    THEN Err("InvalidAmount", "Exceeded maximum length of 10 characters")
    ELSE IF ~re_amount(self.amount)
    THEN Err("InvalidAmount",
             "Value is not in a decimal format. Maximum number of decimal places is 2.")
    ELSE OkUnit

check_currency(self) ==
    IF self.currency # None /\ self.currency[1] \notin CurrencyCode
    THEN Err("InvalidCurrency", "Invalid currency code")
    ELSE OkUnit

check_reference(self) ==
    IF self.reference = None THEN OkUnit
    ELSE IF len(self.reference[1]) > 16
    THEN Err("InvalidReference", "Exceeded maximum length of 16 characters")
    ELSE IF ~re_digits(self.reference[1])
    THEN Err("InvalidReference", "Value contains non-digit characters")
    ELSE OkUnit

check_recipient(self) ==
    IF self.recipient = None THEN OkUnit
    ELSE IF len(self.recipient[1]) > 35
    THEN Err("InvalidRecipient", "Exceeded maximum length of 35 characters")
    ELSE IF ~re_all_allowed(self.recipient[1])
    THEN Err("InvalidRecipient", "Value contains forbidden character(s)")
    ELSE OkUnit

check_date(self) ==
    IF self.date # None /\ ~re_date(self.date[1])
    THEN Err("InvalidDate", "Date is not in YYYYMMDD format")
    ELSE OkUnit

check_payment_type(self) ==
    IF self.payment_type = None THEN OkUnit
    ELSE IF self.payment_type[1].tag # "Other" THEN OkUnit
    ELSE IF len(self.payment_type[1].s) > 3
    THEN Err("InvalidPaymentType", "Exceeded maximum length of 3 characters")
    ELSE IF ~re_all_allowed(self.payment_type[1].s)
    THEN Err("InvalidPaymentType", "Value contains forbidden character(s)")
    ELSE OkUnit

\* The charset branch returns SpaydError::InvalidRecipient (line 254).
check_message(self) ==
    IF self.message = None THEN OkUnit
    ELSE IF len(self.message[1]) > 60
    THEN Err("InvalidMessage", "Exceeded maximum length of 60 characters")
    ELSE IF ~re_all_allowed(self.message[1])
    THEN Err("InvalidRecipient", "Value contains forbidden character(s)")
    ELSE OkUnit

\* The notify_address block with the missing-notify branch tried before
\* the length check.
check_notify_address_type_first(self) ==
    IF self.notify_address = None THEN OkUnit
    ELSE IF self.notify = None
    THEN Err("InvalidNotifyAddress", "Notify type was not provided")
    ELSE IF len(self.notify_address[1]) > 320
    THEN Err("InvalidNotifyAddress", "Exceeded maximum length of 320 characters")
    ELSE IF self.notify[1] = Phone /\ ~re_phone(self.notify_address[1])
    THEN Err("InvalidNotifyAddress", "Invalid phone number")
    ELSE IF self.notify[1] = Email /\ ~re_email(self.notify_address[1])
    THEN Err("InvalidNotifyAddress", "Invalid email address")
    ELSE OkUnit

\* notify itself is not validated; it is read only when notify_address is set.
check_notify_address(self) ==
    IF self.notify_address = None THEN OkUnit
    ELSE IF len(self.notify_address[1]) > 320
    THEN Err("InvalidNotifyAddress", "Exceeded maximum length of 320 characters")
    ELSE IF self.notify = None
    THEN Err("InvalidNotifyAddress", "Notify type was not provided")
    ELSE IF self.notify[1] = Phone /\ ~re_phone(self.notify_address[1])
    THEN Err("InvalidNotifyAddress", "Invalid phone number")
    ELSE IF self.notify[1] = Email /\ ~re_email(self.notify_address[1])
    THEN Err("InvalidNotifyAddress", "Invalid email address")
    ELSE OkUnit

\* validate with the amount block placed before the account block.
validate_amount_first(self) ==
    IF ~check_amount(self).ok THEN check_amount(self)
    ELSE IF ~check_account(self).ok THEN check_account(self)
    ELSE IF ~check_currency(self).ok THEN check_currency(self)
    ELSE IF ~check_reference(self).ok THEN check_reference(self)
    ELSE IF ~check_recipient(self).ok THEN check_recipient(self)
    ELSE IF ~check_date(self).ok THEN check_date(self)
    ELSE IF ~check_payment_type(self).ok THEN check_payment_type(self)
    ELSE IF ~check_message(self).ok THEN check_message(self)
    ELSE IF ~check_notify_address(self).ok THEN check_notify_address(self)
    ELSE OkUnit

\* The blocks in the order validate runs them; each returns on failure.
validate(self) ==
    IF ~check_account(self).ok THEN check_account(self)
    ELSE IF ~check_amount(self).ok THEN check_amount(self)
    ELSE IF ~check_currency(self).ok THEN check_currency(self)
    ELSE IF ~check_reference(self).ok THEN check_reference(self)
    ELSE IF ~check_recipient(self).ok THEN check_recipient(self)
    ELSE IF ~check_date(self).ok THEN check_date(self)
    ELSE IF ~check_payment_type(self).ok THEN check_payment_type(self)
    ELSE IF ~check_message(self).ok THEN check_message(self)
    ELSE IF ~check_notify_address(self).ok THEN check_notify_address(self)
    ELSE OkUnit

----------------------------------------------------------------------------
(* Spayd::build_string.                                                    *)

\* v.join(sep)
RECURSIVE join(_, _)
join(v, sep) ==
    IF v = << >> THEN << >>
    ELSE IF Len(v) = 1 THEN v[1]
    ELSE v[1] \o <<sep>> \o join(Tail(v), sep)

\* v.push(format!("KEY:{}", value)) when the field is Some, v otherwise.
push_some(v, key, opt) == IF opt # None THEN Append(v, key \o opt[1]) ELSE v

\* The value printed after PT: and after NT:.
pt_code(payment_type) ==
    IF payment_type.tag = "Instant" THEN <<"I", "P">> ELSE payment_type.s

nt_code(notify) == IF notify = Phone THEN <<"P">> ELSE <<"E">>

\* The enum fields as the optional text pushed for them.
pt_text(opt) == IF opt # None THEN Some(pt_code(opt[1])) ELSE None
nt_text(opt) == IF opt # None THEN Some(nt_code(opt[1])) ELSE None

\* build_string with the recipient block placed before the reference block.
build_string_v_swapped(self) ==
    LET v4 == << <<"S", "P", "D">>, <<"1", ".", "0">>,
                 <<"A", "C", "C", ":">> \o self.account,
                 <<"A", "M", ":">> \o self.amount >>
        v5 == push_some(v4, <<"C", "C", ":">>, self.currency)
        v6 == push_some(v5, <<"R", "N", ":">>, self.recipient)
        v7 == push_some(v6, <<"R", "F", ":">>, self.reference)
        v8 == push_some(v7, <<"D", "T", ":">>, self.date)
        v9 == push_some(v8, <<"P", "T", ":">>, pt_text(self.payment_type))
        v10 == push_some(v9, <<"M", "S", "G", ":">>, self.message)
        v11 == push_some(v10, <<"N", "T", ":">>, nt_text(self.notify))
    IN  push_some(v11, <<"N", "T", "A", ":">>, self.notify_address)

\* The vector v of build_string just before the join.
build_string_v(self) ==
    LET v4 == << <<"S", "P", "D">>, <<"1", ".", "0">>,
                 <<"A", "C", "C", ":">> \o self.account,
                 <<"A", "M", ":">> \o self.amount >>
        v5 == push_some(v4, <<"C", "C", ":">>, self.currency)
        v6 == push_some(v5, <<"R", "F", ":">>, self.reference)
        v7 == push_some(v6, <<"R", "N", ":">>, self.recipient)
        v8 == push_some(v7, <<"D", "T", ":">>, self.date)
        v9 == push_some(v8, <<"P", "T", ":">>, pt_text(self.payment_type))
        v10 == push_some(v9, <<"M", "S", "G", ":">>, self.message)
        v11 == push_some(v10, <<"N", "T", ":">>, nt_text(self.notify))
    IN  push_some(v11, <<"N", "T", "A", ":">>, self.notify_address)

build_string(self) == join(build_string_v(self), "*")

----------------------------------------------------------------------------
(* The public entry points.                                                *)

\* spayd_string with the validate()? line left out.
spayd_string_no_validate(self) == Ok(build_string(self))

spayd_string(self) ==
    IF ~validate(self).ok THEN validate(self) ELSE Ok(build_string(self))

spayd_string_unchecked(self) == build_string(self)

----------------------------------------------------------------------------
(* Bounds of the input sets.                                               *)

\* Free-form input strings are enumerated up to this length.
MaxFree == 2

\* Input strings run up to this many characters past a field's length limit.
MaxOver == 2

\* n copies of the character c.
Pad(c, n) == [i \in 1..n |-> c]

\* Every string over the alphabet A of at most n characters.
Strings(A, n) == UNION {[1..k -> A] : k \in 0..n}

----------------------------------------------------------------------------
(* Input values.                                                           *)

\* "CZ5508000000001234567899"
ACCOUNT_OK ==
    <<"C", "Z", "5", "5", "0", "8", "0", "0", "0", "0", "0", "0", "0", "0",
      "1", "2", "3", "4", "5", "6", "7", "8", "9", "9">>

\* "C1Z7955000000001027699338"
ACCOUNT_BAD ==
    <<"C", "1", "Z", "7", "9", "5", "5", "0", "0", "0", "0", "0", "0", "0",
      "0", "1", "0", "2", "7", "6", "9", "9", "3", "3", "8">>

\* "239.50" and "239.500"
AMOUNT_OK == <<"2", "3", "9", ".", "5", "0">>
AMOUNT_3DP == <<"2", "3", "9", ".", "5", "0", "0">>

\* "CZK" and "CZ"
CURRENCY_OK == <<"C", "Z", "K">>
CURRENCY_BAD == <<"C", "Z">>

\* "123121" and "123121123A"
REFERENCE_OK == <<"1", "2", "3", "1", "2", "1">>
REFERENCE_BAD == <<"1", "2", "3", "1", "2", "1", "1", "2", "3", "A">>

\* "MISTR1/+.% PO:" and "MISTR1/+*.% PO:"
RECIPIENT_OK ==
    <<"M", "I", "S", "T", "R", "1", "/", "+", ".", "%", " ", "P", "O", ":">>
RECIPIENT_BAD ==
    <<"M", "I", "S", "T", "R", "1", "/", "+", "*", ".", "%", " ", "P", "O", ":">>

\* "20230810" and "20231310"
DATE_OK == <<"2", "0", "2", "3", "0", "8", "1", "0">>
DATE_BAD == <<"2", "0", "2", "3", "1", "3", "1", "0">>

\* "ABC" and "ABCD"
OTHER_OK == <<"A", "B", "C">>
OTHER_BAD == <<"A", "B", "C", "D">>

\* "PAYMENT" and "PAY*"
MESSAGE_OK == <<"P", "A", "Y", "M", "E", "N", "T">>
MESSAGE_BAD == <<"P", "A", "Y", "*">>

\* "+420123456789", "email@example.com" and "email@example.com**"
PHONE_OK == <<"+", "4", "2", "0", "1", "2", "3", "4", "5", "6", "7", "8", "9">>
EMAIL_OK ==
    <<"e", "m", "a", "i", "l", "@", "e", "x", "a", "m", "p", "l", "e", ".",
      "c", "o", "m">>
EMAIL_STARS == EMAIL_OK \o <<"*", "*">>

\* The values each builder setter may be given: a valid and an invalid one
\* per field.
Inputs ==
    [account |-> {ACCOUNT_OK, ACCOUNT_BAD},
     amount |-> {AMOUNT_OK, AMOUNT_3DP},
     currency |-> {CURRENCY_OK, CURRENCY_BAD},
     reference |-> {REFERENCE_OK, REFERENCE_BAD},
     recipient |-> {RECIPIENT_OK, RECIPIENT_BAD},
     date |-> {DATE_OK, DATE_BAD},
     payment_type |-> {Instant, Other(OTHER_OK), Other(OTHER_BAD)},
     message |-> {MESSAGE_OK, MESSAGE_BAD},
     notify |-> {Phone, Email},
     notify_address |-> {PHONE_OK, EMAIL_OK, EMAIL_STARS}]

----------------------------------------------------------------------------
(* The state machine: SpaydBuilder, build(), and the calls on the record.  *)

\* The position of field f in the declaration order.
FieldIndex(f) == CHOOSE i \in DOMAIN Fields : Fields[i] = f

\* Spayd::builder(): no field set; no record built; nothing called yet.
NoResult == [op |-> "none", ok |-> FALSE, val |-> << >>, variant |-> "", reason |-> ""]

Called(op, r) ==
    [op |-> op, ok |-> r.ok, val |-> r.val, variant |-> r.variant, reason |-> r.reason]

Init ==
    /\ builder = [f \in {Fields[i] : i \in DOMAIN Fields} |-> None]
    /\ spayd = None
    /\ result = NoResult
    /\ in_order = TRUE

\* Whether calling the setter of f keeps the calls in declaration order.
StillInOrder(f) ==
    in_order /\ \A i \in DOMAIN Fields :
                    builder[Fields[i]] # None => i < FieldIndex(f)

\* The ten setters the TypedBuilder derive generates, each given a value of
\* D.  A setter is callable once, in any order, before build().  in_order
\* records whether the setters so far were called in declaration order.
set_account(D) ==
    /\ spayd = None
    /\ builder.account = None
    /\ \E v \in D : builder' = [builder EXCEPT !.account = Some(v)]
    /\ in_order' = StillInOrder("account")
    /\ UNCHANGED <<spayd, result>>

set_amount(D) ==
    /\ spayd = None
    /\ builder.amount = None
    /\ \E v \in D : builder' = [builder EXCEPT !.amount = Some(v)]
    /\ in_order' = StillInOrder("amount")
    /\ UNCHANGED <<spayd, result>>

set_currency(D) ==
    /\ spayd = None
    /\ builder.currency = None
    /\ \E v \in D : builder' = [builder EXCEPT !.currency = Some(v)]
    /\ in_order' = StillInOrder("currency")
    /\ UNCHANGED <<spayd, result>>

set_reference(D) ==
    /\ spayd = None
    /\ builder.reference = None
    /\ \E v \in D : builder' = [builder EXCEPT !.reference = Some(v)]
    /\ in_order' = StillInOrder("reference")
    /\ UNCHANGED <<spayd, result>>

set_recipient(D) ==
    /\ spayd = None
    /\ builder.recipient = None
    /\ \E v \in D : builder' = [builder EXCEPT !.recipient = Some(v)]
    /\ in_order' = StillInOrder("recipient")
    /\ UNCHANGED <<spayd, result>>

set_date(D) ==
    /\ spayd = None
    /\ builder.date = None
    /\ \E v \in D : builder' = [builder EXCEPT !.date = Some(v)]
    /\ in_order' = StillInOrder("date")
    /\ UNCHANGED <<spayd, result>>

set_payment_type(D) ==
    /\ spayd = None
    /\ builder.payment_type = None
    /\ \E v \in D : builder' = [builder EXCEPT !.payment_type = Some(v)]
    /\ in_order' = StillInOrder("payment_type")
    /\ UNCHANGED <<spayd, result>>

set_message(D) ==
    /\ spayd = None
    /\ builder.message = None
    /\ \E v \in D : builder' = [builder EXCEPT !.message = Some(v)]
    /\ in_order' = StillInOrder("message")
    /\ UNCHANGED <<spayd, result>>

set_notify(D) ==
    /\ spayd = None
    /\ builder.notify = None
    /\ \E v \in D : builder' = [builder EXCEPT !.notify = Some(v)]
    /\ in_order' = StillInOrder("notify")
    /\ UNCHANGED <<spayd, result>>

set_notify_address(D) ==
    /\ spayd = None
    /\ builder.notify_address = None
    /\ \E v \in D : builder' = [builder EXCEPT !.notify_address = Some(v)]
    /\ in_order' = StillInOrder("notify_address")
    /\ UNCHANGED <<spayd, result>>

\* build(): available once account and amount are set; an optional field
\* never set is None (#[builder(default)]).
build ==
    /\ spayd = None
    /\ builder.account # None
    /\ builder.amount # None
    /\ spayd' = Some([account |-> builder.account[1],
                      amount |-> builder.amount[1],
                      currency |-> builder.currency,
                      reference |-> builder.reference,
                      recipient |-> builder.recipient,
                      date |-> builder.date,
                      payment_type |-> builder.payment_type,
                      message |-> builder.message,
                      notify |-> builder.notify,
                      notify_address |-> builder.notify_address])
    /\ UNCHANGED <<builder, result, in_order>>

call_spayd_string ==
    /\ spayd # None
    /\ result' = Called("spayd_string", spayd_string(spayd[1]))
    /\ UNCHANGED <<builder, spayd, in_order>>

call_spayd_string_unchecked ==
    /\ spayd # None
    /\ result' = Called("spayd_string_unchecked", Ok(spayd_string_unchecked(spayd[1])))
    /\ UNCHANGED <<builder, spayd, in_order>>

NextOver(D) ==
    \/ set_account(D.account)
    \/ set_amount(D.amount)
    \/ set_currency(D.currency)
    \/ set_reference(D.reference)
    \/ set_recipient(D.recipient)
    \/ set_date(D.date)
    \/ set_payment_type(D.payment_type)
    \/ set_message(D.message)
    \/ set_notify(D.notify)
    \/ set_notify_address(D.notify_address)
    \/ build
    \/ call_spayd_string
    \/ call_spayd_string_unchecked

Next == NextOver(Inputs)

Spec == Init /\ [][Next]_vars

----------------------------------------------------------------------------
(* Vocabulary shared by the properties below.                              *)

\* The record the calls are made on, once built.
Built == spayd # None
Self == spayd[1]

SafeCalled == result.op = "spayd_string"
UncheckedCalled == result.op = "spayd_string_unchecked"

\* The outcome of each field's check, in the order account, amount,
\* currency, reference, recipient, date, payment_type, message,
\* notify_address.
FieldChecks(self) ==
    <<check_account(self), check_amount(self), check_currency(self),
      check_reference(self), check_recipient(self), check_date(self),
      check_payment_type(self), check_message(self),
      check_notify_address(self)>>

\* The SpaydError variant that belongs to each of those fields.
FieldVariant ==
    <<"InvalidAccountNumber", "InvalidAmount", "InvalidCurrency",
      "InvalidReference", "InvalidRecipient", "InvalidDate",
      "InvalidPaymentType", "InvalidMessage", "InvalidNotifyAddress">>

\* i is the earliest field of self whose check fails.
FirstInvalid(self, i) ==
    /\ ~FieldChecks(self)[i].ok
    /\ \A j \in 1..(i - 1) : FieldChecks(self)[j].ok

\* r is the error e, with no string in it.
IsErr(r, e) ==
    /\ ~r.ok
    /\ r.variant = e.variant
    /\ r.reason = e.reason
    /\ r.val = << >>

----------------------------------------------------------------------------
(* C1 - safe path composition.                                             *)

\* C1: after spayd_string, the result is Err(e) exactly when validate of the
\* same record is Err(e) (same variant and reason, no string), and otherwise
\* it is Ok(s) with s the string spayd_string_unchecked gives for that
\* record; after spayd_string_unchecked the result is always Ok of the
\* serializer's string, also for a record validate rejects.
C1_SafePathComposition ==
    /\ SafeCalled =>
          /\ ~validate(Self).ok => IsErr(result, validate(Self))
          /\ ~result.ok => IsErr(validate(Self), result)
          /\ validate(Self).ok =>
                result.ok /\ result.val = spayd_string_unchecked(Self)
    /\ UncheckedCalled => result.ok /\ result.val = build_string(Self)

\* C1 witness: a safe call that propagated a field error of a record whose
\* unchecked string exists all the same.
C1_Witness ==
    /\ SafeCalled
    /\ ~result.ok
    /\ result.variant = "InvalidDate"
    /\ Self.recipient # None

----------------------------------------------------------------------------
(* C2 - canonical order and optionality of the serializer's tokens.        *)

\* The optional segments in the fixed order CC, RF, RN, DT, PT, MSG, NT,
\* NTA: the key of each and the text of its field, None when absent.
C2_Segments(self) ==
    << <<"CC:", <<"C", "C", ":">>, self.currency>>,
       <<"RF:", <<"R", "F", ":">>, self.reference>>,
       <<"RN:", <<"R", "N", ":">>, self.recipient>>,
       <<"DT:", <<"D", "T", ":">>, self.date>>,
       <<"PT:", <<"P", "T", ":">>,
         IF self.payment_type = None THEN None
         ELSE IF self.payment_type[1] = Instant THEN Some(<<"I", "P">>)
         ELSE Some(self.payment_type[1].s)>>,
       <<"MSG:", <<"M", "S", "G", ":">>, self.message>>,
       <<"NT:", <<"N", "T", ":">>,
         IF self.notify = None THEN None
         ELSE IF self.notify[1] = Phone THEN Some(<<"P">>) ELSE Some(<<"E">>)>>,
       <<"NTA:", <<"N", "T", "A", ":">>, self.notify_address>> >>

C2_IsPresent(seg) == seg[3] # None

C2_Present(self) == SelectSeq(C2_Segments(self), C2_IsPresent)

\* The token sequence the claim describes.
C2_Tokens(self) ==
    << <<"S", "P", "D">>, <<"1", ".", "0">>,
       <<"A", "C", "C", ":">> \o self.account,
       <<"A", "M", ":">> \o self.amount >>
    \o [k \in 1..Len(C2_Present(self)) |->
            C2_Present(self)[k][2] \o C2_Present(self)[k][3][1]]

\* The position in the joined string where token k starts.
RECURSIVE C2_Start(_, _)
C2_Start(tokens, k) ==
    IF k = 1 THEN 1 ELSE C2_Start(tokens, k - 1) + Len(tokens[k - 1]) + 1

\* out is tokens joined by single '*' characters: every token in its place,
\* one '*' before every token but the first, and nothing else.
C2_IsJoined(out, tokens) ==
    /\ Len(out) = C2_Start(tokens, Len(tokens)) + Len(tokens[Len(tokens)]) - 1
    /\ \A k \in 1..Len(tokens) :
          /\ SubSeq(out, C2_Start(tokens, k),
                    C2_Start(tokens, k) + Len(tokens[k]) - 1) = tokens[k]
          /\ k > 1 => out[C2_Start(tokens, k) - 1] = "*"

\* C2: whatever the order of the setter calls, the string of either entry
\* point is the tokens SPD, 1.0, ACC:<account>, AM:<amount> and then one
\* token per present optional field, none for an absent one, in the order
\* CC, RF, RN, DT, PT, MSG, NT, NTA (PT:IP for Instant, PT:s for Other(s),
\* NT:P for Phone, NT:E for Email), joined by '*'; the serializer pushed 4
\* tokens plus one per present optional field.
C2_CanonicalOrder ==
    (UncheckedCalled \/ (SafeCalled /\ result.ok)) =>
        /\ C2_IsJoined(result.val, C2_Tokens(Self))
        /\ build_string_v(Self) = C2_Tokens(Self)
        /\ Len(build_string_v(Self)) =
              4 + Cardinality({f \in {"currency", "reference", "recipient",
                                      "date", "payment_type", "message",
                                      "notify", "notify_address"} :
                                  Self[f] # None})

\* C2 witness: an unchecked string of a record whose setters were called
\* out of declaration order, with some optional fields present (among them
\* Other and Phone) and some absent.
C2_Witness ==
    /\ UncheckedCalled
    /\ ~in_order
    /\ Self.reference # None
    /\ Self.recipient # None
    /\ Self.date = None
    /\ Self.payment_type = Some(Other(OTHER_OK))
    /\ Self.notify = Some(Phone)
    /\ Self.currency = None

----------------------------------------------------------------------------
(* C3 - no doubled delimiter in a validated string.                        *)

\* C3: the string spayd_string returns never holds two adjacent '*'.
C3_NoDoubledDelimiter ==
    (SafeCalled /\ result.ok) =>
        \A i \in 1..(Len(result.val) - 1) :
            ~(result.val[i] = "*" /\ result.val[i + 1] = "*")

----------------------------------------------------------------------------
(* C4 - the error variant names the failing field.                         *)

\* C4: when spayd_string fails, the variant returned is the one of the
\* earliest field whose rule is violated, and InvalidRecipient is returned
\* only when recipient is present and invalid.
C4_VariantNamesField ==
    (SafeCalled /\ ~result.ok) =>
        /\ \A i \in 1..9 :
              FirstInvalid(Self, i) => result.variant = FieldVariant[i]
        /\ result.variant = "InvalidRecipient" =>
              Self.recipient # None /\ ~check_recipient(Self).ok

----------------------------------------------------------------------------
(* C5 - first-failure semantics.                                           *)

\* C5: the result of spayd_string on a record with invalid fields is the
\* error produced by the check of the earliest invalid field in the order
\* account, amount, currency, reference, recipient, date, payment_type,
\* message, notify_address, whatever the later fields hold; an invalid
\* account gives InvalidAccountNumber("Value is not a valid IBAN").
C5_FirstFailure ==
    SafeCalled =>
        /\ \A i \in 1..9 :
              FirstInvalid(Self, i) => IsErr(result, FieldChecks(Self)[i])
        /\ ~re_iban(Self.account) =>
              IsErr(result, Err("InvalidAccountNumber", "Value is not a valid IBAN"))

\* C5 witness: a failed safe call on a record whose account, amount and two
\* later fields are all invalid.
C5_Witness ==
    /\ SafeCalled
    /\ ~result.ok
    /\ Self.account = ACCOUNT_BAD
    /\ Self.amount = AMOUNT_3DP
    /\ Self.date = Some(DATE_BAD)
    /\ Self.message = Some(MESSAGE_BAD)

----------------------------------------------------------------------------
(* SpecNotify: the notify / notify_address rule.  Every other field is      *)
(* absent or holds its valid value; notify_address runs over short and     *)
(* long values, up to MaxOver bytes past the limit of 320.                 *)

NotifyAddresses ==
    {PHONE_OK, EMAIL_OK, EMAIL_STARS, << >>, <<"*">>}
    \cup {Pad("1", n) : n \in 319..(320 + MaxOver)}
    \cup {Pad("U+0663", n) : n \in 160..(160 + MaxOver)}
    \cup {EMAIL_OK \o Pad("x", n) : n \in 302..(303 + MaxOver)}

NotifyInputs ==
    [account |-> {ACCOUNT_OK},
     amount |-> {AMOUNT_OK},
     currency |-> {CURRENCY_OK},
     reference |-> {REFERENCE_OK},
     recipient |-> {RECIPIENT_OK},
     date |-> {DATE_OK},
     payment_type |-> {Instant, Other(OTHER_OK)},
     message |-> {MESSAGE_OK},
     notify |-> {Phone, Email},
     notify_address |-> NotifyAddresses]

NextNotify == NextOver(NotifyInputs)

SpecNotify == Init /\ [][NextNotify]_vars

\* Every field but notify_address passes its check.
C6_OthersValid(self) == \A i \in 1..8 : FieldChecks(self)[i].ok

\* C6 as stated: with the other fields valid, notify_address present with
\* any value and notify absent fails with InvalidNotifyAddress("Notify type
\* was not provided"); notify without notify_address is accepted.
C6_AnyValue ==
    (SafeCalled /\ C6_OthersValid(Self)) =>
        /\ (Self.notify_address # None /\ Self.notify = None) =>
              IsErr(result, Err("InvalidNotifyAddress", "Notify type was not provided"))
        /\ Self.notify_address = None => result.ok

\* C6 amended: with the other fields valid, notify_address present and
\* notify absent fails with InvalidNotifyAddress: with "Notify type was not
\* provided" when the address is at most 320 bytes long, with "Exceeded
\* maximum length of 320 characters" when it is longer (the length is
\* checked first).  A record without notify_address is accepted whether
\* notify is present or not.
C6_NotifyDependency ==
    (SafeCalled /\ C6_OthersValid(Self)) =>
        /\ (Self.notify_address # None /\ Self.notify = None) =>
              IF len(Self.notify_address[1]) <= 320
              THEN IsErr(result, Err("InvalidNotifyAddress",
                                     "Notify type was not provided"))
              ELSE IsErr(result, Err("InvalidNotifyAddress",
                                     "Exceeded maximum length of 320 characters"))
        /\ Self.notify_address = None => result.ok

\* C6 witness: a failed safe call on a record with notify absent, an address
\* longer than the limit and valid other fields.
C6_Witness ==
    /\ SafeCalled
    /\ Self.notify = None
    /\ Self.notify_address # None
    /\ len(Self.notify_address[1]) > 320
    /\ Self.message # None
    /\ result.variant = "InvalidNotifyAddress"

----------------------------------------------------------------------------
(* SpecDate: the date rule.  account, amount and recipient hold valid      *)
(* values; date runs over 8-character values with every pair of month      *)
(* characters and every pair of day characters, over several years, and    *)
(* over shorter and longer values.                                         *)

DateChars == Digit09 \cup {"U+0663", "A"}

DateYears ==
    {<<y1>> \o y234 :
        y1 \in {"0", "1", "2", "3", "9", "U+0663"},
        y234 \in {<<"0", "2", "3">>, <<"9", "9", "9">>,
                  <<"U+0663", "0", "U+0663">>, <<"0", "A", "0">>}}

DateInputs ==
    {y \o <<m1, m2>> \o dd :
        y \in DateYears, m1 \in DateChars, m2 \in DateChars,
        dd \in {<<"0", "1">>, <<"3", "1">>, <<"0", "0">>, <<"3", "2">>}}
    \cup {<<"2", "0", "2", "3">> \o mm \o <<d1, d2>> :
        mm \in {<<"0", "1">>, <<"0", "2">>, <<"1", "2">>, <<"1", "3">>},
        d1 \in DateChars, d2 \in DateChars}
    \cup {SubSeq(DATE_OK, 1, n) : n \in 0..7}
    \cup {DATE_OK \o s : s \in Strings({"0", "1"}, MaxOver)}

NextDate ==
    \/ set_account({ACCOUNT_OK})
    \/ set_amount({AMOUNT_OK})
    \/ set_recipient({RECIPIENT_OK})
    \/ set_date(DateInputs)
    \/ build
    \/ call_spayd_string
    \/ call_spayd_string_unchecked

SpecDate == Init /\ [][NextDate]_vars

\* The number a decimal digit stands for.
DigitValue(c) ==
    CASE c = "0" -> 0 [] c = "1" -> 1 [] c = "2" -> 2 [] c = "3" -> 3
      [] c = "4" -> 4 [] c = "5" -> 5 [] c = "6" -> 6 [] c = "7" -> 7
      [] c = "8" -> 8 [] c = "9" -> 9 [] c = "U+0663" -> 3

TwoDigits(s, i) == 10 * DigitValue(s[i]) + DigitValue(s[i + 1])

\* Every field but date passes its check.
C7_OthersValid(self) == \A i \in (1..9) \ {6} : FieldChecks(self)[i].ok

\* The dates C7 says are accepted: 8 digits 0-9, MM in 01..12, DD in 01..31,
\* any year.
C7_AnyYearDate(d) ==
    /\ Len(d) = 8
    /\ \A i \in 1..8 : d[i] \in Digit09
    /\ TwoDigits(d, 5) \in 1..12
    /\ TwoDigits(d, 7) \in 1..31

\* C7 as stated: a present date is accepted if and only if it is 8 digits
\* YYYYMMDD with MM in 01..12 and DD in 01..31, for every year; any other
\* value fails with InvalidDate("Date is not in YYYYMMDD format").
C7_AnyYear ==
    (SafeCalled /\ C7_OthersValid(Self) /\ Self.date # None) =>
        IF C7_AnyYearDate(Self.date[1])
        THEN result.ok
        ELSE IsErr(result, Err("InvalidDate", "Date is not in YYYYMMDD format"))

\* The dates of the amended C7: 8 characters, the first '1' or '2', then
\* three decimal digits, MM in 01..12 and DD in 01..31 written in digits 0-9,
\* except that the three last year digits and the units digit of a day
\* 10..29 may be any Unicode decimal digit.
C7_AcceptedDate(d) ==
    /\ Len(d) = 8
    /\ d[1] \in {"1", "2"}
    /\ \A i \in 2..4 : d[i] \in Digit09 \cup {"U+0663"}
    /\ \A i \in 5..7 : d[i] \in Digit09
    /\ d[8] \in Digit09 \cup {"U+0663"}
    /\ d[8] \notin Digit09 => d[7] \in {"1", "2"}
    /\ TwoDigits(d, 5) \in 1..12
    /\ TwoDigits(d, 7) \in 1..31

\* C7 amended: with the other fields valid, a present date is accepted if
\* and only if it is 8 characters YYYYMMDD whose first character is '1' or
\* '2' (years 1000..2999), whose MM is in 01..12 and whose DD is in 01..31,
\* with no month-length or leap-year check (20230231 is accepted) and with
\* the digit positions matched by \d open to non-ASCII decimal digits; any
\* other value fails with InvalidDate("Date is not in YYYYMMDD format").
C7_DateRule ==
    (SafeCalled /\ C7_OthersValid(Self) /\ Self.date # None) =>
        IF C7_AcceptedDate(Self.date[1])
        THEN result.ok
        ELSE IsErr(result, Err("InvalidDate", "Date is not in YYYYMMDD format"))

\* C7 witness: the safe call accepted 20230231 (February 31st).
C7_Witness ==
    /\ SafeCalled
    /\ result.ok
    /\ Self.date = Some(<<"2", "0", "2", "3", "0", "2", "3", "1">>)

----------------------------------------------------------------------------
(* SpecAmount: the amount rule.  account holds its valid value; amount     *)
(* runs over every short string of digits, separators and signs, and over  *)
(* long values around the limit of 10.                                     *)

AmountChars == {"0", "5", ".", "-", ",", "U+0663"}

AmountInputs ==
    Strings(AmountChars, MaxFree + 2)
    \cup {Pad("1", n) \o tail :
            n \in 6..(10 + MaxOver),
            tail \in {<< >>, <<".", "5">>, <<".", "5", "0">>,
                      <<".", "5", "0", "0">>}}
    \cup {Pad("U+0663", n) : n \in 4..(5 + MaxOver)}

NextAmount ==
    \/ set_account({ACCOUNT_OK})
    \/ set_amount(AmountInputs)
    \/ set_message({MESSAGE_OK})
    \/ build
    \/ call_spayd_string
    \/ call_spayd_string_unchecked

SpecAmount == Init /\ [][NextAmount]_vars

\* Every field but amount passes its check.
C8_OthersValid(self) == \A i \in (1..9) \ {2} : FieldChecks(self)[i].ok

\* One or more digits 0-9, optionally followed by '.' and one or two digits.
C8_DecimalLiteral(a) ==
    \E p \in 1..Len(a) :
        /\ \A i \in 1..p : a[i] \in Digit09
        /\ \/ p = Len(a)
           \/ /\ Len(a) - p \in 2..3
              /\ a[p + 1] = "."
              /\ \A i \in (p + 2)..Len(a) : a[i] \in Digit09

\* C8: with a valid account the amount is accepted if and only if it is at
\* most 10 characters long and a decimal literal of digits with at most two
\* decimal places; longer than 10 characters it fails with
\* InvalidAmount("Exceeded maximum length of 10 characters"), otherwise a
\* rejected amount fails with InvalidAmount("Value is not in a decimal
\* format. Maximum number of decimal places is 2.").
C8_AmountRule ==
    (SafeCalled /\ C8_OthersValid(Self)) =>
        IF Len(Self.amount) > 10
        THEN IsErr(result, Err("InvalidAmount",
                               "Exceeded maximum length of 10 characters"))
        ELSE IF C8_DecimalLiteral(Self.amount)
        THEN result.ok
        ELSE IsErr(result, Err("InvalidAmount",
               "Value is not in a decimal format. Maximum number of decimal places is 2."))

----------------------------------------------------------------------------
(* SpecCharset: the restricted-charset and digits-only rules.  One of      *)
(* reference, recipient, payment_type and message at a time runs over      *)
(* every short string of the probe alphabet and over long values around    *)
(* its length limit, while the other three are absent or hold their valid  *)
(* value.                                                                  *)

\* Characters of the allowed set, and '*', a lowercase letter and two
\* non-ASCII characters outside it.
ProbeChars ==
    {"0", "Z", " ", "$", "%", "+", "-", ".", "/", ":",
     "*", "a", "U+00E9", "U+0663"}

\* Values of n - 1 .. n + MaxOver characters c, bare and with one more
\* character appended.
AroundLimit(c, n) ==
    {Pad(c, k) \o tail :
        k \in (n - 1)..(n + MaxOver),
        tail \in {<< >>, <<"*">>, <<"a">>, <<"U+00E9">>}}

CharsetValues ==
    [reference |-> Strings(ProbeChars, MaxFree) \cup AroundLimit("1", 16),
     recipient |-> Strings(ProbeChars, MaxFree) \cup AroundLimit("A", 35),
     payment_type |->
        {Instant} \cup {Other(s) : s \in Strings(ProbeChars, MaxFree)
                                        \cup AroundLimit("A", 3)},
     message |-> Strings(ProbeChars, MaxFree) \cup AroundLimit("A", 60)]

CharsetValid ==
    [reference |-> REFERENCE_OK, recipient |-> RECIPIENT_OK,
     payment_type |-> Instant, message |-> MESSAGE_OK]

\* The values the setter of f may be given: any value of CharsetValues[f]
\* while the other three fields are absent or valid, the valid value only
\* otherwise.
CharsetInputs(f) ==
    IF \A g \in (DOMAIN CharsetValid) \ {f} :
          builder[g] \in {None, Some(CharsetValid[g])}
    THEN CharsetValues[f] \cup {CharsetValid[f]}
    ELSE {CharsetValid[f]}

NextCharset ==
    \/ set_account({ACCOUNT_OK})
    \/ set_amount({AMOUNT_OK})
    \/ set_reference(CharsetInputs("reference"))
    \/ set_recipient(CharsetInputs("recipient"))
    \/ set_payment_type(CharsetInputs("payment_type"))
    \/ set_message(CharsetInputs("message"))
    \/ build
    \/ call_spayd_string
    \/ call_spayd_string_unchecked

SpecCharset == Init /\ [][NextCharset]_vars

\* The set of characters C9 names.
C9_Charset ==
    Digit09 \cup UpperAZ \cup {" ", "$", "%", "+", "-", ".", "/", ":"}

\* At least lo and at most hi characters, all of them in C.
C9_Within(s, lo, hi, C) ==
    /\ Len(s) >= lo
    /\ Len(s) <= hi
    /\ \A i \in 1..Len(s) : s[i] \in C

\* Each present field of the four satisfies its rule, a value having to
\* hold at least lo characters.
C9_Rules(self, lo) ==
    /\ self.reference # None => C9_Within(self.reference[1], lo, 16, Digit09)
    /\ self.recipient # None => C9_Within(self.recipient[1], lo, 35, C9_Charset)
    /\ self.message # None => C9_Within(self.message[1], lo, 60, C9_Charset)
    /\ (self.payment_type # None /\ self.payment_type[1] # Instant) =>
          C9_Within(self.payment_type[1].s, lo, 3, C9_Charset)

\* The fields other than the four pass their checks.
C9_OthersValid(self) == \A i \in {1, 2, 3, 6, 9} : FieldChecks(self)[i].ok

\* C9 as stated: with the other fields valid, a present recipient, message
\* or Other(s) is accepted if and only if it is within its length bound (35,
\* 60, 3) and all its characters are in the set; Instant is always accepted;
\* a reference if and only if it is at most 16 characters, digits only.
C9_AnyLength ==
    (SafeCalled /\ C9_OthersValid(Self)) =>
        (result.ok <=> C9_Rules(Self, 0))

\* C9 amended: as C9, for values that are not empty: a present reference,
\* recipient, message or Other(s) is accepted if and only if it holds at
\* least one character and at most 16, 35, 60, 3, all of them in the field's
\* set; the empty string is rejected.
C9_CharsetRule ==
    (SafeCalled /\ C9_OthersValid(Self)) =>
        (result.ok <=> C9_Rules(Self, 1))

\* C9 witness: the safe call rejected a recipient of the allowed length
\* whose only fault is a '*', next to a valid reference.
C9_Witness ==
    /\ SafeCalled
    /\ ~result.ok
    /\ Self.recipient = Some(<<"Z", "*">>)
    /\ Self.reference = Some(REFERENCE_OK)

----------------------------------------------------------------------------
(* SpecEmpty: empty values.  Every string-valued field holds its valid     *)
(* value or the empty string; notify_address may also hold a valid e-mail  *)
(* address followed by "*MSG:".                                            *)

\* "email@example.com*MSG:"
EMAIL_THEN_KEY == EMAIL_OK \o <<"*", "M", "S", "G", ":">>

EmptyInputs ==
    [account |-> {ACCOUNT_OK, << >>},
     amount |-> {AMOUNT_OK, << >>},
     currency |-> {CURRENCY_OK, << >>},
     reference |-> {REFERENCE_OK, << >>},
     recipient |-> {RECIPIENT_OK, << >>},
     date |-> {DATE_OK, << >>},
     payment_type |-> {Instant, Other(OTHER_OK), Other(<< >>)},
     message |-> {MESSAGE_OK, << >>},
     notify |-> {Phone, Email},
     notify_address |-> {PHONE_OK, EMAIL_OK, << >>, EMAIL_THEN_KEY}]

NextEmpty == NextOver(EmptyInputs)

SpecEmpty == Init /\ [][NextEmpty]_vars

\* The string values a record holds: account, amount and every present
\* string-valued optional field.
C10_StringValues(self) ==
    {self.account, self.amount}
    \cup {self[f][1] : f \in {g \in {"currency", "reference", "recipient",
                                     "date", "message", "notify_address"} :
                                 self[g] # None}}
    \cup (IF self.payment_type # None /\ self.payment_type[1] # Instant
          THEN {self.payment_type[1].s} ELSE {})

\* The ten keys, each with its colon and nothing after it.
C10_BareKeys ==
    {<<"A", "C", "C", ":">>, <<"A", "M", ":">>, <<"C", "C", ":">>,
     <<"R", "F", ":">>, <<"R", "N", ":">>, <<"D", "T", ":">>,
     <<"P", "T", ":">>, <<"M", "S", "G", ":">>, <<"N", "T", ":">>,
     <<"N", "T", "A", ":">>}

\* out[i..j] is a token of out: a longest stretch without '*'.
C10_IsToken(out, i, j) ==
    /\ i <= j
    /\ \A k \in i..j : out[k] # "*"
    /\ i = 1 \/ out[i - 1] = "*"
    /\ j = Len(out) \/ out[j + 1] = "*"

\* The part of C10 that holds: a record that passes validation holds no
\* empty string value, and none of the tokens the serializer pushes for it
\* is a bare key.
C10_NoEmptyValue ==
    (SafeCalled /\ result.ok) =>
        /\ << >> \notin C10_StringValues(Self)
        /\ \A k \in DOMAIN build_string_v(Self) :
              build_string_v(Self)[k] \notin C10_BareKeys

\* C10: a record that passes validation holds no empty string value (so a
\* field set to the empty string makes spayd_string fail), and the string
\* spayd_string returns holds no token that is a bare key.
C10_NoBareKey ==
    (SafeCalled /\ result.ok) =>
        /\ << >> \notin C10_StringValues(Self)
        /\ \A i \in 1..Len(result.val) : \A j \in i..Len(result.val) :
              C10_IsToken(result.val, i, j) =>
                 SubSeq(result.val, i, j) \notin C10_BareKeys

============================================================================
